---- MODULE Spec2Model ----
(***************************************************************************)
(* Model of the compilers-course library: context-free grammars and their  *)
(* normalisation (grammar.py, graph.py), the recursive-descent membership  *)
(* test (parser.py), regular expressions (rex.py), labelled transition     *)
(* systems (lts.py) and the regexp -> LTS construction (rex2lts.py).       *)
(*                                                                         *)
(* Symbols are strings.  A grammar object is a record                      *)
(*   [terminals, non_terminals, start, rules, last_used_symbol]            *)
(* whose rules field is a function from the keys of the Python dict to a   *)
(* sequence of alternatives (each a sequence of symbols).  The dict is a   *)
(* defaultdict(list): reading a missing key yields [] and creates the key. *)
(* Operations that can raise return [G |-> grammar, exc |-> name], G being *)
(* the (possibly partially updated) object at the time of the raise.       *)
(*                                                                         *)
(* Python iterates a set of strings in hash order, which differs from run  *)
(* to run; every operation that iterates a set takes the order as the      *)
(* parameter ord (a sequence of symbols) and the actions choose it.        *)
(***************************************************************************)
EXTENDS Integers, Sequences, FiniteSets, TLC

VARIABLES grammar, exc, hist, before, parser, query, answer,
          rexp, first_state, lts, chain, rex_ans, lts_ans

vars == <<grammar, exc, hist, before, parser, query, answer,
          rexp, first_state, lts, chain, rex_ans, lts_ans>>

gvars == <<grammar, exc, hist, before, parser, query, answer>>
rvars == <<rexp, first_state, lts, chain, rex_ans, lts_ans>>

-----------------------------------------------------------------------------
(* Python built-ins used by the code *)

Range(s) == {s[i] : i \in DOMAIN s}

\* list.extend over a list of lists
RECURSIVE Flatten(_)
Flatten(ss) == IF ss = <<>> THEN <<>> ELSE Head(ss) \o Flatten(Tail(ss))

\* str(n) of a non-negative int
str(n) == ToString(n)

\* the elements of the set S in the iteration order ord
InOrder(ord, S) == SelectSeq(ord, LAMBDA x : x \in S)

\* defaultdict(list).__getitem__: the value read ...
Get(rules, k) == IF k \in DOMAIN rules THEN rules[k] ELSE <<>>

\* ... and the keys it creates
Touch(rules, K) == [k \in (DOMAIN rules) \cup K |-> Get(rules, k)]

\* dict.pop(k, None)
Pop(rules, K) == [k \in (DOMAIN rules) \ K |-> rules[k]]

\* all(x in S for x in rule)
AllIn(rule, S) == \A i \in DOMAIN rule : rule[i] \in S

\* any(rule and rule[0] == s for rule in group)
AnyBegins(group, s) == \E i \in DOMAIN group : group[i] # <<>> /\ group[i][1] = s

-----------------------------------------------------------------------------
(* graph.py *)

\* Graph._dfs: three-colour depth-first search from v.  Returns the colouring
\* and whether CycleFound was raised.  The successors are visited in the
\* order of todo; the outcome does not depend on it.
RECURSIVE _dfs(_, _, _)
RECURSIVE _dfs_each(_, _, _)
_dfs(graph, state, v) ==
    IF state[v] = "VISITED" THEN [state |-> state, found |-> FALSE]
    ELSE IF state[v] = "VISITING" THEN [state |-> state, found |-> TRUE]
    ELSE LET r == _dfs_each(graph, [state EXCEPT ![v] = "VISITING"], graph[v])
         IN  IF r.found THEN r
             ELSE [state |-> [r.state EXCEPT ![v] = "VISITED"], found |-> FALSE]
_dfs_each(graph, state, todo) ==
    IF todo = {} THEN [state |-> state, found |-> FALSE]
    ELSE LET next_v == CHOOSE u \in todo : TRUE
             r == _dfs(graph, state, next_v)
         IN  IF r.found THEN r ELSE _dfs_each(graph, r.state, todo \ {next_v})

\* Graph.has_cycle
RECURSIVE has_cycle_from(_, _, _)
has_cycle_from(graph, state, todo) ==
    IF todo = {} THEN FALSE
    ELSE LET v == CHOOSE u \in todo : TRUE
             r == _dfs(graph, state, v)
         IN  r.found \/ has_cycle_from(graph, r.state, todo \ {v})
\* faulty variant: only a vertex that is its own successor is found
has_self_loop(graph) == \E v \in DOMAIN graph : v \in graph[v]
has_cycle(graph) ==
    has_cycle_from(graph, [v \in DOMAIN graph |-> "NOT_VISITED"], DOMAIN graph)

\* Graph.find_reachables: the inner dfs marks everything reachable from v
RECURSIVE visit(_, _)
visit(graph, visited) ==
    LET more == UNION {graph[v] : v \in visited} \ visited
    IN  IF more = {} THEN visited ELSE visit(graph, visited \cup more)
find_reachables(graph) == [v \in DOMAIN graph |-> visit(graph, {v})]

-----------------------------------------------------------------------------
(* grammar.py: ContextFreeGrammar *)

\* ContextFreeGrammar.__init__ (the assert on the keys is WellFormed below)
ContextFreeGrammar(terminals, non_terminals, start, rules) ==
    [terminals |-> terminals, non_terminals |-> non_terminals, start |-> start,
     rules |-> rules, last_used_symbol |-> 0]

\* _get_next_unused: the counter value whose str is returned
RECURSIVE next_unused_from(_, _)
next_unused_from(G, n) ==
    IF str(n) \in G.non_terminals \/ str(n) \in G.terminals
    THEN next_unused_from(G, n + 1) ELSE n
_get_next_unused(G) == next_unused_from(G, G.last_used_symbol)

\* the fixed point of the `while changed` loops: a pass adds every key with a
\* qualifying alternative; the loop ends with the pass that adds nothing
RECURSIVE reachable_from(_, _)
reachable_from(G, reachable) ==
    LET added == {s \in G.non_terminals \ reachable :
                    \E n \in (DOMAIN G.rules) \cap reachable :
                      \E i \in DOMAIN G.rules[n] : s \in Range(G.rules[n][i])}
    IN  IF added = {} THEN reachable ELSE reachable_from(G, reachable \cup added)
Reachable(G) ==
    reachable_from(G, IF G.start \in G.non_terminals THEN {G.start} ELSE {})

RECURSIVE alive_from(_, _)
alive_from(G, alive) ==
    LET added == {n \in (DOMAIN G.rules) \ alive :
                    \E i \in DOMAIN G.rules[n] :
                      AllIn(G.rules[n][i], G.terminals \cup alive)}
    IN  IF added = {} THEN alive ELSE alive_from(G, alive \cup added)
\* faulty variant: every symbol with an alternative counts as alive
Alive_any_rule(G) == {n \in DOMAIN G.rules : G.rules[n] # <<>>}
Alive(G) == alive_from(G, {})

RECURSIVE vanishings_from(_, _)
vanishings_from(G, vanishings) ==
    LET added == {n \in (DOMAIN G.rules) \ vanishings :
                    \E i \in DOMAIN G.rules[n] : AllIn(G.rules[n][i], vanishings)}
    IN  IF added = {} THEN vanishings ELSE vanishings_from(G, vanishings \cup added)
get_vanishings(G) == vanishings_from(G, {})

\* delete_unreachable
delete_unreachable(G) ==
    LET reachable == Reachable(G)
    IN  [G EXCEPT !.rules = Pop(G.rules, G.non_terminals \ reachable),
                  !.non_terminals = reachable]

\* delete_dead, lines 73-75: self.rules.pop(symbol) raises KeyError on a
\* symbol without a key, after the pops of the symbols iterated before it
RECURSIVE pop_dead(_, _, _)
pop_dead(rules, todo, alive) ==
    IF todo = <<>> THEN [rules |-> rules, exc |-> "None"]
    ELSE IF Head(todo) \in alive THEN pop_dead(rules, Tail(todo), alive)
    ELSE IF Head(todo) \notin DOMAIN rules THEN [rules |-> rules, exc |-> "KeyError"]
    ELSE pop_dead(Pop(rules, {Head(todo)}), Tail(todo), alive)

\* faulty variant of line 78: the rules naming dead symbols are kept
keep_all_rules(G, rules, alive) == rules

\* delete_dead, line 78
keep_alive_rules(G, rules, alive) ==
    [k \in DOMAIN rules |->
        SelectSeq(rules[k], LAMBDA rule : AllIn(rule, G.terminals \cup alive))]

delete_dead(G, ord) ==
    LET alive == Alive(G)
        popped == pop_dead(G.rules, InOrder(ord, G.non_terminals), alive)
    IN  IF popped.exc # "None"
        THEN [G |-> [G EXCEPT !.rules = popped.rules], exc |-> popped.exc]
        ELSE [G |-> [G EXCEPT !.rules = keep_alive_rules(G, popped.rules, alive),
                              !.non_terminals = alive],
              exc |-> "None"]

\* faulty variant: the two passes in the reverse order
delete_unreachable_first(G, ord) == delete_dead(delete_unreachable(G), ord)

\* delete_extra_non_terminals
delete_extra_non_terminals(G, ord) ==
    LET d == delete_dead(G, ord)
    IN  IF d.exc # "None" THEN d
        ELSE [G |-> delete_unreachable(d.G), exc |-> "None"]

\* has_left_recursion, lines 111-119: graph[symbol] is a plain dict, so a key
\* of rules outside non_terminals raises KeyError at its first edge
left_graph(G) ==
    LET vanishings == get_vanishings(G)
        \* the symbols the loop of lines 114-119 adds for one rule
        firsts(rule) ==
            {rule[j] : j \in {j \in DOMAIN rule :
                /\ \A m \in 1..j : rule[m] \in G.non_terminals
                /\ \A m \in 1..(j - 1) : rule[m] \in vanishings}}
    IN  [v \in G.non_terminals |->
            UNION {firsts(Get(G.rules, v)[i]) : i \in DOMAIN Get(G.rules, v)}]

has_left_recursion_raises(G) ==
    \E symbol \in (DOMAIN G.rules) \ G.non_terminals :
        \E i \in DOMAIN G.rules[symbol] :
            G.rules[symbol][i] # <<>> /\ G.rules[symbol][i][1] \in G.non_terminals

has_left_recursion(G) == has_cycle(left_graph(G))

\* delete_vanishings, line 142: is bit i of mask set
Bit(mask, i) == (mask \div (2 ^ i)) % 2

\* lines 132-135 and 137: the (1-based) positions of the vanishing symbols,
\* followed by the position after the end of the rule
vanishing_ind(rule, vanishings) ==
    SelectSeq([i \in 1..Len(rule) |-> i], LAMBDA i : rule[i] \in vanishings)
        \o <<Len(rule) + 1>>

\* lines 139-143: the slices rule[beg:ind + bit] joined, from entry i on
RECURSIVE masked_rule(_, _, _, _, _)
masked_rule(rule, vind, mask, i, beg) ==
    IF i > Len(vind) THEN <<>>
    ELSE LET ind == vind[i]
             last == IF ind + Bit(mask, i - 1) - 1 > Len(rule) THEN Len(rule)
                     ELSE ind + Bit(mask, i - 1) - 1
         IN  SubSeq(rule, beg, last) \o masked_rule(rule, vind, mask, i + 1, ind + 1)

\* faulty variant of lines 144-145: the empty new rule is appended too
append_new_rule_always(new_rule) == <<new_rule>>

\* lines 144-145: only a non-empty new rule is appended
append_new_rule(new_rule) == IF new_rule # <<>> THEN <<new_rule>> ELSE <<>>

\* lines 136-145: the new rules of one rule, masks in increasing order
RECURSIVE new_rules_from(_, _, _, _)
new_rules_from(rule, vind, mask, combinations) ==
    IF mask >= combinations THEN <<>>
    ELSE LET new_rule == masked_rule(rule, vind, mask, 1, 1)
         IN  append_new_rule(new_rule)
                \o new_rules_from(rule, vind, mask + 1, combinations)

new_rules_of(rule, vanishings) ==
    LET vind == vanishing_ind(rule, vanishings)
    IN  new_rules_from(rule, vind, 0, 2 ^ (Len(vind) - 1))

\* delete_vanishings
delete_vanishings(G) ==
    LET vanishings == get_vanishings(G)
        rules1 == [symb \in DOMAIN G.rules |->
                     Flatten([i \in DOMAIN G.rules[symb] |->
                                new_rules_of(G.rules[symb][i], vanishings)])]
        n == _get_next_unused(G)
        new_start == str(n)
    IN  IF G.start \in vanishings
        THEN [G EXCEPT !.rules = [k \in (DOMAIN rules1) \cup {new_start} |->
                                    IF k = new_start THEN <<<<G.start>>, <<>>>>
                                    ELSE rules1[k]],
                       !.non_terminals = G.non_terminals \cup {new_start},
                       !.start = new_start,
                       !.last_used_symbol = n]
        ELSE [G EXCEPT !.rules = rules1]

\* delete_chain_rules, lines 161 and 166
is_chain(G, rule) == Len(rule) = 1 /\ rule[1] \in G.non_terminals

\* faulty variant of lines 165-166: the unit alternatives are not stripped
strip_no_rules(G, rules) == rules

\* delete_chain_rules, lines 165-166
strip_chain_rules(G, rules) ==
    [symb \in DOMAIN rules |->
        SelectSeq(rules[symb], LAMBDA rule : ~is_chain(G, rule))]

\* delete_chain_rules; each set `reachables` is iterated in the order ord
delete_chain_rules(G, ord) ==
    LET rules0 == Touch(G.rules, G.non_terminals)
        graph == [v \in G.non_terminals |->
                    {rules0[v][i][1] : i \in {i \in DOMAIN rules0[v] :
                                                is_chain(G, rules0[v][i])}}]
        reachable == find_reachables(graph)
        stripped == strip_chain_rules(G, rules0)
        others(a) == InOrder(ord, reachable[a] \ {a})
    IN  [G EXCEPT !.rules =
            [a \in DOMAIN stripped |->
                IF a \in G.non_terminals
                THEN stripped[a] \o
                     Flatten([i \in DOMAIN others(a) |-> stripped[others(a)[i]]])
                ELSE stripped[a]]]

\* eliminate_left_recursion, lines 206-215: non_term's rules substituted at
\* the beginning of the rules of the symbols still to be processed
RECURSIVE substitute_in(_, _, _)
substitute_in(rules, non_term, bigger) ==
    IF bigger = <<>> THEN rules
    ELSE LET bigger_symb == Head(bigger)
             rules1 == Touch(rules, {bigger_symb})
             group == rules1[bigger_symb]
             expand(rule) ==
                 IF rule # <<>> /\ rule[1] = non_term
                 THEN [i \in DOMAIN rules1[non_term] |->
                          rules1[non_term][i] \o Tail(rule)]
                 ELSE <<rule>>
             new_rules == Flatten([i \in DOMAIN group |-> expand(group[i])])
         IN  substitute_in(
                 IF AnyBegins(group, non_term)
                 THEN [rules1 EXCEPT ![bigger_symb] = new_rules] ELSE rules1,
                 non_term, Tail(bigger))

\* faulty variant of line 204: the new symbol gets no empty alternative
new_symb_rules_no_empty(non_term_rules, new_symb) ==
    [i \in DOMAIN non_term_rules |-> non_term_rules[i] \o <<new_symb>>]

\* eliminate_left_recursion, lines 203 and 204: the rules of the recursive
\* symbol and of the symbol introduced for it
non_term_new_rules(other_rules, new_symb) ==
    [i \in DOMAIN other_rules |-> other_rules[i] \o <<new_symb>>]
new_symb_rules(non_term_rules, new_symb) ==
    [i \in DOMAIN non_term_rules |-> non_term_rules[i] \o <<new_symb>>] \o <<<<>>>>

\* eliminate_left_recursion, lines 190-215: the while loop, popping from the
\* end of nonterminals.  rule[0] at line 197 raises IndexError on an empty
\* rule of a directly recursive symbol.
RECURSIVE eliminate_loop(_, _)
eliminate_loop(G, nonterminals) ==
    IF nonterminals = <<>> THEN [G |-> G, exc |-> "None"]
    ELSE LET non_term == nonterminals[Len(nonterminals)]
             rest == SubSeq(nonterminals, 1, Len(nonterminals) - 1)
             G1 == [G EXCEPT !.rules = Touch(G.rules, {non_term})]
             group == G1.rules[non_term]
             non_term_rules ==
                 [i \in DOMAIN SelectSeq(group, LAMBDA rule : rule[1] = non_term) |->
                     Tail(SelectSeq(group, LAMBDA rule : rule[1] = non_term)[i])]
             other_rules == SelectSeq(group, LAMBDA rule : rule[1] # non_term)
             n == _get_next_unused(G1)
             new_symb == str(n)
             rules2 == [k \in (DOMAIN G1.rules) \cup {new_symb} |->
                          IF k = new_symb
                          THEN new_symb_rules(non_term_rules, new_symb)
                          ELSE IF k = non_term
                          THEN non_term_new_rules(other_rules, new_symb)
                          ELSE G1.rules[k]]
         IN  IF ~AnyBegins(group, non_term) THEN eliminate_loop(G1, rest)
             ELSE IF \E i \in DOMAIN group : group[i] = <<>>
             THEN [G |-> G1, exc |-> "IndexError"]
             ELSE eliminate_loop(
                    [G1 EXCEPT !.non_terminals = G1.non_terminals \cup {new_symb},
                               !.last_used_symbol = n,
                               !.rules = substitute_in(rules2, non_term, rest)],
                    rest)

\* eliminate_left_recursion, lines 185-189: list(self.non_terminals) with the
\* start symbol swapped to the end
swap_start_last(nonterminals, start) ==
    IF start \in Range(nonterminals)
    THEN LET ind == CHOOSE i \in DOMAIN nonterminals : nonterminals[i] = start
             last == Len(nonterminals)
         IN  [i \in DOMAIN nonterminals |->
                IF i = ind THEN nonterminals[last]
                ELSE IF i = last THEN nonterminals[ind]
                ELSE nonterminals[i]]
    ELSE nonterminals

\* list(self.non_terminals), line 185.  ord orders the non-terminals at the
\* call; the start added by delete_vanishings is placed last, where line 189
\* puts it whatever its place in the list
list_of(ord, S) ==
    LET fresh == S \ Range(ord)
    IN  InOrder(ord, S) \o (IF fresh = {} THEN <<>> ELSE <<CHOOSE x \in fresh : TRUE>>)

\* eliminate_left_recursion
eliminate_left_recursion(G, ord) ==
    IF has_left_recursion_raises(G) THEN [G |-> G, exc |-> "KeyError"]
    ELSE IF ~has_left_recursion(G) THEN [G |-> G, exc |-> "None"]
    ELSE LET e1 == delete_extra_non_terminals(G, ord)
             G2 == delete_vanishings(e1.G)
             G3 == delete_chain_rules(G2, ord)
             e4 == delete_extra_non_terminals(G3, ord)
         IN  IF e1.exc # "None" THEN e1
             ELSE IF e4.exc # "None" THEN e4
             ELSE eliminate_loop(e4.G,
                    swap_start_last(list_of(ord, e4.G.non_terminals), e4.G.start))

\* _left_factorize_group, lines 218-220: the keys of rules_by_first in
\* insertion order ('' stands for the empty rule)
first_of(rule) == IF rule # <<>> THEN rule[1] ELSE ""
RECURSIVE firsts_in_order(_, _)
firsts_in_order(group, seen) ==
    IF group = <<>> THEN <<>>
    ELSE IF first_of(Head(group)) \in seen THEN firsts_in_order(Tail(group), seen)
    ELSE <<first_of(Head(group))>>
            \o firsts_in_order(Tail(group), seen \cup {first_of(Head(group))})

\* _left_factorize_group, lines 223-231: the loop over rules_by_first.items();
\* acc = [G, new_rules, new_symbols]
RECURSIVE factor_groups(_, _, _)
factor_groups(acc, group, keys) ==
    IF keys = <<>> THEN acc
    ELSE LET symbol == Head(keys)
             sym_rules == SelectSeq(group, LAMBDA rule : first_of(rule) = symbol)
             n == _get_next_unused(acc.G)
             new_beg == str(n)
         IN  IF symbol = "" \/ symbol \in acc.G.terminals \/ Len(sym_rules) < 2
             THEN factor_groups([acc EXCEPT !.new_rules = @ \o sym_rules],
                                group, Tail(keys))
             ELSE factor_groups(
                    [G |-> [acc.G EXCEPT
                              !.non_terminals = @ \cup {new_beg},
                              !.last_used_symbol = n,
                              !.rules = [k \in (DOMAIN acc.G.rules) \cup {new_beg} |->
                                           IF k = new_beg
                                           THEN [i \in DOMAIN sym_rules |->
                                                    Tail(sym_rules[i])]
                                           ELSE acc.G.rules[k]]],
                     new_rules |-> acc.new_rules \o <<<<symbol, new_beg>>>>,
                     new_symbols |-> acc.new_symbols \o <<new_beg>>],
                    group, Tail(keys))

\* _left_factorize_group, lines 218-232: the group of non_term factored once;
\* [G, new_symbols]
factor_group(G, non_term) ==
    LET G1 == [G EXCEPT !.rules = Touch(G.rules, {non_term})]
        group == G1.rules[non_term]
        acc == factor_groups([G |-> G1, new_rules |-> <<>>, new_symbols |-> <<>>],
                             group, firsts_in_order(group, {}))
    IN  [G |-> [acc.G EXCEPT !.rules =
                    [acc.G.rules EXCEPT ![non_term] = acc.new_rules]],
         new_symbols |-> acc.new_symbols]

\* faulty variant: the groups of the new symbols are not factored in turn
left_factorize_group_once(G, non_term) == factor_group(G, non_term).G

\* _left_factorize_group, and its calls on a list of symbols (lines 233-234
\* and 240-241)
RECURSIVE _left_factorize_group(_, _)
RECURSIVE left_factorize_each(_, _)
_left_factorize_group(G, non_term) ==
    left_factorize_each(factor_group(G, non_term).G,
                        factor_group(G, non_term).new_symbols)
left_factorize_each(G, symbols) ==
    IF symbols = <<>> THEN G
    ELSE left_factorize_each(_left_factorize_group(G, Head(symbols)), Tail(symbols))

\* left_factorize
left_factorize(G, ord) == left_factorize_each(G, InOrder(ord, G.non_terminals))

-----------------------------------------------------------------------------
(* parser.py *)

\* the depth at which the interpreter raises RecursionError; every call on
\* the grammars and words below that returns at all returns within it
RecursionLimit == 20

\* Parser.is_in_language(word, cur) at recursion depth `depth`.  Returns
\* [ret, touched]: ret is "True", "False" or "RecursionError", touched the
\* keys that line 28 read from the defaultdict (and so created if missing).
RECURSIVE is_in_language(_, _, _, _)
RECURSIVE try_rules(_, _, _, _, _, _)
\* faulty variant of line 29: the expanded symbol stays at the front of cur
try_rules_keep_front(G, word, cur, group, depth, touched) ==
    IF group = <<>> THEN [ret |-> "False", touched |-> touched]
    ELSE LET r == is_in_language(G, word, Head(group) \o cur, depth + 1)
         IN  IF r.ret # "False"
             THEN [ret |-> r.ret, touched |-> touched \cup r.touched]
             ELSE try_rules(G, word, cur, Tail(group), depth,
                            touched \cup r.touched)
is_in_language(G, word, cur, depth) ==
    IF depth > RecursionLimit THEN [ret |-> "RecursionError", touched |-> {}]
    ELSE IF word = <<>>
    THEN [ret |-> IF AllIn(cur, get_vanishings(G)) THEN "True" ELSE "False",
          touched |-> {}]
    ELSE IF cur = <<>> THEN [ret |-> "False", touched |-> {}]
    ELSE IF cur[1] \in G.terminals
    THEN IF word[1] = cur[1]
         THEN is_in_language(G, Tail(word), Tail(cur), depth + 1)
         ELSE [ret |-> "False", touched |-> {}]
    ELSE try_rules(G, word, cur, Get(G.rules, cur[1]), depth, {cur[1]})
try_rules(G, word, cur, group, depth, touched) ==
    IF group = <<>> THEN [ret |-> "False", touched |-> touched]
    ELSE LET r == is_in_language(G, word, Head(group) \o Tail(cur), depth + 1)
         IN  IF r.ret # "False"
             THEN [ret |-> r.ret, touched |-> touched \cup r.touched]
             ELSE try_rules(G, word, cur, Tail(group), depth,
                            touched \cup r.touched)

\* faulty variant: no copy, the parser keeps the caller's object
deepcopy_alias(obj) == [ref |-> "caller", val |-> obj]

\* copy.deepcopy: a new object ("copy") holding an equal value
deepcopy(obj) == [ref |-> "copy", val |-> obj]

-----------------------------------------------------------------------------
(* rex.py: a regular expression is a record tagged by its class *)

Epsilon == [type |-> "Epsilon"]
Symbol(symbol) == [type |-> "Symbol", value |-> symbol]
Concatenation(first, second) ==
    [type |-> "Concatenation", first |-> first, second |-> second]
Union(first, second) == [type |-> "Union", first |-> first, second |-> second]
KleeneStar(regular_expression) ==
    [type |-> "KleeneStar", value |-> regular_expression]

\* string[:l] and string[l:]
Prefix(string, l) == SubSeq(string, 1, l)
Suffix(string, l) == SubSeq(string, l + 1, Len(string))

\* ReX.accepts of the five classes; a string is a sequence of one-character
\* strings, so Symbol's `self.value == string` holds of <<value>> only
RECURSIVE accepts(_, _)
accepts(e, string) ==
    CASE e.type = "Epsilon" -> string = <<>>
      [] e.type = "Symbol" -> string = <<e.value>>
      [] e.type = "Concatenation" ->
            \E l \in 0..Len(string) :
                accepts(e.first, Prefix(string, l)) /\ accepts(e.second, Suffix(string, l))
      [] e.type = "Union" -> accepts(e.first, string) \/ accepts(e.second, string)
      [] e.type = "KleeneStar" ->
            \/ string = <<>>
            \/ \E l \in 1..Len(string) :
                accepts(e.value, Prefix(string, l)) /\ accepts(e, Suffix(string, l))

-----------------------------------------------------------------------------
(* lts.py *)

Transition(from_, lbl, to) == [from_ |-> from_, lbl |-> lbl, to |-> to]

\* LTS.__init__; states is range(start, end + 1) at the only call site
LTS(start, end, states, tokens, transitions) ==
    [start |-> start, end |-> end, states |-> states, tokens |-> tokens,
     transitions |-> transitions]

\* LTS.trans_from_lbl[(state, lbl)], as the set of target states
targets(L, state, lbl) ==
    {tr.to : tr \in {t \in L.transitions : t.from_ = state /\ t.lbl = lbl}}

\* LTS.closure
RECURSIVE closure(_, _)
closure(L, set_) ==
    LET added == UNION {targets(L, cur, "") : cur \in set_} \ set_
    IN  IF added = {} THEN set_ ELSE closure(L, set_ \cup added)

\* LTS.accepts, lines 58-71: the loop over the set `reached`.  set.pop()
\* takes the pairs in an arbitrary order and the answer does not depend on
\* it; here one round pops every pair of `reached` (all of one length).
RECURSIVE accepts_loop(_, _, _)
accepts_loop(L, chain_, reached) ==
    IF reached = {} THEN FALSE
    ELSE IF \E p \in reached : p[2] = Len(chain_) /\ p[1] = L.end THEN TRUE
    ELSE accepts_loop(L, chain_,
            UNION {{<<x, p[2] + 1>> :
                        x \in closure(L, targets(L, p[1], chain_[p[2] + 1]))} :
                   p \in {r \in reached : r[2] < Len(chain_)}})

LTS_accepts(L, chain_) ==
    accepts_loop(L, chain_, {<<x, 0>> : x \in closure(L, {L.start})})

-----------------------------------------------------------------------------
(* rex2lts.py *)

\* rex2lts(rexp, first_state).  Returns [lts, exc]; the KleeneStar branch
\* reads rexp.inner, an attribute KleeneStar does not have (rex.py:79 names
\* it value), so it raises AttributeError.
RECURSIVE rex2lts(_, _)
rex2lts(e, first) ==
    LET raise(x) == [lts |-> LTS(0, 0, {}, {}, {}), exc |-> x]
        done(start, end, transitions) ==
            [lts |-> LTS(start, end, start..end,
                         {x.lbl : x \in transitions}, transitions),
             exc |-> "None"]
    IN  CASE e.type \in {"Epsilon", "Symbol"} ->
                done(first, first + 1,
                     {Transition(first, IF e.type = "Symbol" THEN e.value ELSE "",
                                 first + 1)})
          [] e.type = "KleeneStar" -> raise("AttributeError")
          [] e.type = "Union" ->
                LET fir == rex2lts(e.first, first + 1)
                    sec == rex2lts(e.second,
                                   first + 1 + Cardinality(fir.lts.states))
                    end == sec.lts.end + 1
                IN  IF fir.exc # "None" THEN fir
                    ELSE IF sec.exc # "None" THEN sec
                    ELSE done(first, end,
                            fir.lts.transitions \cup sec.lts.transitions \cup
                            {Transition(first, "", fir.lts.start),
                             Transition(first, "", sec.lts.start),
                             Transition(fir.lts.end, "", end),
                             Transition(sec.lts.end, "", end)})
          [] e.type = "Concatenation" ->
                LET fir == rex2lts(e.first, 0)
                    sec == rex2lts(e.second, first + Cardinality(fir.lts.states))
                IN  IF fir.exc # "None" THEN fir
                    ELSE IF sec.exc # "None" THEN sec
                    ELSE done(fir.lts.start, sec.lts.end,
                            fir.lts.transitions \cup sec.lts.transitions \cup
                            {Transition(fir.lts.end, "", sec.lts.start)})

-----------------------------------------------------------------------------
(* The inputs: the grammars the program is started on *)

Terminals == {"a"}
NonTerminals == {"A", "B"}

\* the longest alternative and the most alternatives of a group
MaxRuleLen == 2
MaxRules == 2
\* the most rewrites applied in a row
MaxOps == 2
\* sets of at most this many symbols are iterated in every order
MaxOrdered == 3
\* the longest word asked of the parser
MaxWordLen == 3

Alternatives == UNION {[1..n -> Terminals \cup NonTerminals] : n \in 0..MaxRuleLen}
Groups == UNION {[1..n -> Alternatives] : n \in 0..MaxRules}

\* the grammars ContextFreeGrammar.__init__ accepts: every key is a non-terminal
GeneratedGrammars ==
    {ContextFreeGrammar(Terminals, NonTerminals, "A", rules) :
        rules \in UNION {[K -> Groups] : K \in SUBSET NonTerminals}}

\* the grammars of the repository's own tests
\* parser.py:35, test_parser_brackets
Brackets ==
    ContextFreeGrammar({"(", ")"}, {"A"}, "A",
        "A" :> << <<"(", "A", ")">>, <<>>, <<"A", "A">> >>)
\* parser.py:54, test_parser_polynoms
Polynoms ==
    ContextFreeGrammar({"x", "^", "n", "+"}, {"m", "p"}, "p",
        ("p" :> << <<"m">>, <<"p", "+", "m">> >>) @@
        ("m" :> << <<"x">>, <<"x", "^", "n">> >>))
\* grammar.py:263, test_delete_extra
ExtrasOrdering ==
    ContextFreeGrammar({"a", "b"}, {"A", "B"}, "A",
        ("A" :> << <<"A", "B">> >>) @@ ("B" :> << <<"a", "b">> >>))
\* grammar.py:273, test_delete_extra
ExtrasThree ==
    ContextFreeGrammar({"a", "b"}, {"A", "B", "C"}, "A",
        ("A" :> << <<"B">> >>) @@ ("B" :> << <<"A">>, <<"b">> >>) @@
        ("C" :> << <<"A", "a">> >>))
\* grammar.py:292, 294 and 296, test_has_recursion
NoRecursion ==
    ContextFreeGrammar({"a", "b"}, {"A", "B", "C"}, "A",
        ("A" :> << <<"B", "C">> >>) @@ ("B" :> << <<"C">> >>) @@
        ("C" :> << <<>> >>))
SelfLoop == ContextFreeGrammar({}, {"A"}, "A", "A" :> << <<"A">> >>)
NullableRecursion ==
    ContextFreeGrammar({"a", "b"}, {"A", "B", "C"}, "A",
        ("A" :> << <<"B", "C">> >>) @@ ("B" :> << <<>> >>) @@
        ("C" :> << <<"A", "B">> >>))
TestGrammars ==
    {Brackets, Polynoms, ExtrasOrdering, ExtrasThree, NoRecursion, SelfLoop,
     NullableRecursion}

InitGrammars == GeneratedGrammars \cup TestGrammars

\* the words over the terminals of a grammar
WordsOver(terminals) == UNION {[1..n -> terminals] : n \in 0..MaxWordLen}

\* the iteration orders of a set
RECURSIVE SetToSeq(_)
SetToSeq(S) ==
    IF S = {} THEN <<>>
    ELSE LET x == CHOOSE y \in S : TRUE IN <<x>> \o SetToSeq(S \ {x})
RECURSIVE Perms(_)
Perms(S) ==
    IF S = {} THEN {<<>>}
    ELSE UNION {{<<x>> \o p : p \in Perms(S \ {x})} : x \in S}
Reverse(s) == [i \in DOMAIN s |-> s[Len(s) + 1 - i]]
Orders(S) ==
    IF Cardinality(S) <= MaxOrdered THEN Perms(S)
    ELSE {SetToSeq(S), Reverse(SetToSeq(S))}

NoGrammar == ContextFreeGrammar({}, {}, "", <<>>)
NoParser == [ref |-> "none", val |-> NoGrammar]
NoQuery == [word |-> <<>>, ret |-> "none"]

-----------------------------------------------------------------------------
(* The rewrites applied to the caller's grammar *)

Done(op, r) ==
    /\ grammar' = r.G
    /\ exc' = r.exc
    /\ hist' = Append(hist, [op |-> op, exc |-> r.exc])
    /\ before' = grammar
    /\ UNCHANGED <<parser, query, answer, rvars>>

Ok(G) == [G |-> G, exc |-> "None"]

DeleteUnreachable ==
    /\ Len(hist) < MaxOps
    /\ \E r \in {Ok(delete_unreachable(grammar))} : Done("delete_unreachable", r)

DeleteDead ==
    /\ Len(hist) < MaxOps
    /\ \E ord \in Orders(grammar.non_terminals) :
       \E r \in {delete_dead(grammar, ord)} : Done("delete_dead", r)

DeleteExtraNonTerminals ==
    /\ Len(hist) < MaxOps
    /\ \E ord \in Orders(grammar.non_terminals) :
       \E r \in {delete_extra_non_terminals(grammar, ord)} : Done("delete_extra_non_terminals", r)

DeleteVanishings ==
    /\ Len(hist) < MaxOps
    /\ \E r \in {Ok(delete_vanishings(grammar))} : Done("delete_vanishings", r)

DeleteChainRules ==
    /\ Len(hist) < MaxOps
    /\ \E ord \in Orders(grammar.non_terminals) :
       \E r \in {Ok(delete_chain_rules(grammar, ord))} : Done("delete_chain_rules", r)

EliminateLeftRecursion ==
    /\ Len(hist) < MaxOps
    /\ \E ord \in Orders(grammar.non_terminals) :
       \E r \in {eliminate_left_recursion(grammar, ord)} : Done("eliminate_left_recursion", r)

LeftFactorize ==
    /\ Len(hist) < MaxOps
    /\ \E ord \in Orders(grammar.non_terminals) :
       \E r \in {Ok(left_factorize(grammar, ord))} : Done("left_factorize", r)

NoLts == [lts |-> LTS(0, 0, {}, {}, {}), exc |-> "not built"]

RexIdle ==
    /\ rexp = Epsilon /\ first_state = 0 /\ lts = NoLts /\ chain = <<>>
    /\ rex_ans = "none" /\ lts_ans = "none"

Init ==
    /\ grammar \in InitGrammars
    /\ exc = "None"
    /\ hist = <<>>
    /\ before = grammar
    /\ parser = NoParser
    /\ query = NoQuery
    /\ answer = "none"
    /\ RexIdle

Next ==
    \/ DeleteUnreachable
    \/ DeleteDead
    \/ DeleteExtraNonTerminals
    \/ DeleteVanishings
    \/ DeleteChainRules
    \/ EliminateLeftRecursion
    \/ LeftFactorize

Spec == Init /\ [][Next]_vars

-----------------------------------------------------------------------------
(* The parser built on the caller's grammar and asked about words *)

\* the object self._grammar refers to
ParserGrammar == IF parser.ref = "caller" THEN grammar ELSE parser.val

\* Parser.__init__; an exception leaves no Parser object
NewParser ==
    /\ parser.ref = "none"
    /\ hist = <<>>
    /\ \E c \in {deepcopy(grammar)} :
       \E ord1 \in Orders(grammar.non_terminals) :
       \E e \in {eliminate_left_recursion(c.val, ord1)} :
       \E ord2 \in Orders(e.G.non_terminals) :
       \E n \in {IF e.exc # "None" THEN e ELSE Ok(left_factorize(e.G, ord2))} :
          /\ parser' = IF n.exc = "None" THEN [ref |-> c.ref, val |-> n.G]
                       ELSE parser
          /\ grammar' = IF c.ref = "caller" THEN n.G ELSE grammar
          /\ exc' = n.exc
          /\ hist' = Append(hist, [op |-> "Parser", exc |-> n.exc])
          /\ before' = grammar
          /\ UNCHANGED <<query, answer, rvars>>

\* Parser.is_in_language(word)
IsInLanguage ==
    /\ parser.ref # "none"
    /\ \E G \in {ParserGrammar} :
       \E word \in WordsOver(G.terminals) :
       \E r \in {is_in_language(G, word, <<G.start>>, 1)} :
       \E G1 \in {[G EXCEPT !.rules = Touch(G.rules, r.touched)]} :
          /\ query' = [word |-> word, ret |-> r.ret]
          /\ parser' = [parser EXCEPT !.val = G1]
          /\ grammar' = IF parser.ref = "caller" THEN G1 ELSE grammar
          /\ exc' = IF r.ret = "RecursionError" THEN r.ret ELSE "None"
          /\ UNCHANGED <<hist, before, answer, rvars>>

ParserNext == NewParser \/ IsInLanguage

ParserSpec == Init /\ [][ParserNext]_vars

-----------------------------------------------------------------------------
(* Regular expressions compiled to an LTS and asked about chains *)

Alphabet == {"a", "b"}
\* the most nodes of a regular expression, the longest chain, the largest
\* first_state passed to rex2lts
MaxRexSize == 5
MaxChainLen == 3
MaxFirstState == 1

RECURSIVE RexOfSize(_)
RexOfSize(n) ==
    IF n = 1 THEN {Epsilon} \cup {Symbol(c) : c \in Alphabet}
    ELSE {KleeneStar(x) : x \in RexOfSize(n - 1)} \cup
         UNION {UNION {{Concatenation(x, y), Union(x, y)} :
                        x \in RexOfSize(i), y \in RexOfSize(n - 1 - i)} :
                i \in 1..(n - 2)}
Rexes == UNION {RexOfSize(n) : n \in 1..MaxRexSize}
Chains == UNION {[1..n -> Alphabet] : n \in 0..MaxChainLen}

GrammarIdle ==
    /\ grammar = NoGrammar /\ exc = "None" /\ hist = <<>> /\ before = NoGrammar
    /\ parser = NoParser /\ query = NoQuery /\ answer = "none"

RexInit ==
    /\ rexp \in Rexes
    /\ chain \in Chains
    /\ first_state \in 0..MaxFirstState
    /\ lts = NoLts
    /\ rex_ans = "none"
    /\ lts_ans = "none"
    /\ GrammarIdle

Bool(b) == IF b THEN "True" ELSE "False"

\* rex2lts(rexp, first_state)
Rex2Lts ==
    /\ lts.exc = "not built"
    /\ lts' = rex2lts(rexp, first_state)
    /\ UNCHANGED <<rexp, first_state, chain, rex_ans, lts_ans, gvars>>

\* LTS.accepts(chain) on the LTS built
LtsAccepts ==
    /\ lts.exc = "None"
    /\ lts_ans = "none"
    /\ lts_ans' = Bool(LTS_accepts(lts.lts, chain))
    /\ UNCHANGED <<rexp, first_state, chain, lts, rex_ans, gvars>>

\* ReX.accepts(chain)
RexAccepts ==
    /\ rex_ans = "none"
    /\ rex_ans' = Bool(accepts(rexp, chain))
    /\ UNCHANGED <<rexp, first_state, chain, lts, lts_ans, gvars>>

RexNext == Rex2Lts \/ LtsAccepts \/ RexAccepts

RexSpec == RexInit /\ [][RexNext]_vars

-----------------------------------------------------------------------------
(* The left-recursion test asked of a grammar, as it is or left-factored *)

\* has_left_recursion()
HasLeftRecursion ==
    /\ answer = "none"
    /\ \E r \in {IF has_left_recursion_raises(grammar) THEN "KeyError"
                 ELSE Bool(has_left_recursion(grammar))} : answer' = r
    /\ UNCHANGED <<grammar, exc, hist, before, parser, query, rvars>>

AnalysisNext == LeftFactorize \/ HasLeftRecursion

AnalysisSpec == Init /\ [][AnalysisNext]_vars

-----------------------------------------------------------------------------
(* Properties *)

\* the last rewrite applied was op, and it completed
LastOp(op) ==
    /\ hist # <<>>
    /\ hist[Len(hist)].op = op
    /\ hist[Len(hist)].exc = "None"

\* C1: for every regular expression e and every chain w, rex2lts(e) is built
\* and rex2lts(e).accepts(w) returns the same boolean as e.accepts(w)
C1_SameAnswer ==
    (first_state = 0 /\ lts.exc # "not built" /\ rex_ans # "none") =>
        /\ lts.exc = "None"
        /\ lts_ans # "none" => lts_ans = rex_ans

\* C3: once eliminate_left_recursion has completed, has_left_recursion() of
\* the rewritten grammar is false, for direct and indirect recursion alike
C3_NoLeftRecursion ==
    LastOp("eliminate_left_recursion") => ~has_left_recursion(grammar)

\* The language of a grammar, by the definition of derivation rather than
\* by the parser: D holds <<X, i, j>> when X derives word[i+1..j].
RECURSIVE MatchRule(_, _, _, _, _, _, _)
MatchRule(G, word, D, rule, k, i, j) ==
    IF k > Len(rule) THEN i = j
    ELSE IF rule[k] \in G.non_terminals
         THEN \E m \in i..j : /\ <<rule[k], i, m>> \in D
                              /\ MatchRule(G, word, D, rule, k + 1, m, j)
         ELSE /\ i < j
              /\ word[i + 1] = rule[k]
              /\ MatchRule(G, word, D, rule, k + 1, i + 1, j)
RECURSIVE DerivesFrom(_, _, _)
DerivesFrom(G, word, D) ==
    LET more == {t \in (G.non_terminals \X (0..Len(word)) \X (0..Len(word))) \ D :
                    /\ t[2] <= t[3]
                    /\ \E r \in Range(Get(G.rules, t[1])) :
                          MatchRule(G, word, D, r, 1, t[2], t[3])}
    IN  IF more = {} THEN D ELSE DerivesFrom(G, word, D \cup more)
InLanguage(G, word) == <<G.start, 0, Len(word)>> \in DerivesFrom(G, word, {})

\* C2: whenever is_in_language(w) returns, it returns True exactly when w is
\* derivable from the start symbol of the grammar passed to Parser(G)
C2_ParserDecidesLanguage ==
    query.ret \in {"True", "False"} =>
        ((query.ret = "True") <=> InLanguage(before, query.word))
\* a left-recursive grammar was normalised and the parser found a longest word
C2_Witness ==
    /\ has_left_recursion(before)
    /\ query.ret = "True"
    /\ Len(query.word) = MaxWordLen

\* productive non-terminals and non-terminals reachable from the start, by
\* their definitions as least fixed points
RECURSIVE ProductiveFrom(_, _)
ProductiveFrom(G, P) ==
    LET more == {X \in G.non_terminals \ P :
                    \E r \in Range(Get(G.rules, X)) :
                        \A i \in DOMAIN r : r[i] \in G.terminals \cup P}
    IN  IF more = {} THEN P ELSE ProductiveFrom(G, P \cup more)
Productive(G) == ProductiveFrom(G, {})
RECURSIVE ReachableFromStartIn(_, _)
ReachableFromStartIn(G, R) ==
    LET more == {Y \in G.non_terminals \ R :
                    \E X \in R : \E r \in Range(Get(G.rules, X)) : Y \in Range(r)}
    IN  IF more = {} THEN R ELSE ReachableFromStartIn(G, R \cup more)
ReachableFromStart(G) == ReachableFromStartIn(G, {G.start} \cap G.non_terminals)

\* C4: after delete_extra_non_terminals every remaining non-terminal is
\* productive and reachable from the start (N = Alive \cap Reachable), rule
\* groups exist only for remaining non-terminals, the grammar of the
\* ordering example ends with N = {} and R = {}, and the reverse order
\* (delete_unreachable, then delete_dead) leaves it with N = {B}
C4_AliveAndReachable ==
    /\ LastOp("delete_extra_non_terminals") =>
        /\ grammar.non_terminals = Productive(grammar) \cap ReachableFromStart(grammar)
        /\ grammar.non_terminals \subseteq
              Productive(before) \cap ReachableFromStart(before)
        /\ DOMAIN grammar.rules \subseteq grammar.non_terminals
        /\ before = ExtrasOrdering =>
              grammar.non_terminals = {} /\ DOMAIN grammar.rules = {}
    /\ ( /\ Len(hist) = 2
         /\ hist[1] = [op |-> "delete_unreachable", exc |-> "None"]
         /\ hist[2] = [op |-> "delete_dead", exc |-> "None"]
         /\ before = ExtrasOrdering ) => grammar.non_terminals = {"B"}
\* the call removed a dead non-terminal and an unreachable one and kept one
C4_Witness ==
    /\ LastOp("delete_extra_non_terminals")
    /\ grammar.non_terminals # {}
    /\ Productive(before) \cap ReachableFromStart(before) # before.non_terminals
    /\ Productive(before) # before.non_terminals
    /\ ReachableFromStart(before) # before.non_terminals

\* C5: a second delete_extra_non_terminals that completes leaves terminals,
\* non-terminals, start and rules as the first application left them
C5_Idempotent ==
    ( /\ Len(hist) = 2
      /\ hist[1] = [op |-> "delete_extra_non_terminals", exc |-> "None"]
      /\ hist[2] = [op |-> "delete_extra_non_terminals", exc |-> "None"] ) =>
        /\ grammar.terminals = before.terminals
        /\ grammar.non_terminals = before.non_terminals
        /\ grammar.start = before.start
        /\ grammar.rules = before.rules
\* applied twice to a grammar the first application had pruned to something
C5_Witness ==
    /\ Len(hist) = 2
    /\ hist[1] = [op |-> "delete_extra_non_terminals", exc |-> "None"]
    /\ hist[2] = [op |-> "delete_extra_non_terminals", exc |-> "None"]
    /\ grammar.non_terminals # {}
    /\ \E X \in DOMAIN grammar.rules : Len(grammar.rules[X]) = MaxRules

\* X derives the empty word
Nullable(G, X) == <<X, 0, 0>> \in DerivesFrom(G, <<>>, {})
HasEmptyAlternative(G, X) == <<>> \in Range(Get(G.rules, X))

\* C6: after delete_vanishings no non-terminal but the start has an empty
\* alternative, and the start has one exactly when the old start was
\* vanishing; the start is then a fresh non-terminal with the alternatives
\* [old start] and []
C6_OnlyStartVanishes ==
    LastOp("delete_vanishings") =>
        /\ \A X \in (DOMAIN grammar.rules \cup grammar.non_terminals) \ {grammar.start} :
              ~HasEmptyAlternative(grammar, X)
        /\ HasEmptyAlternative(grammar, grammar.start) <=> Nullable(before, before.start)
        /\ Nullable(before, before.start) =>
              /\ grammar.start \notin before.non_terminals \cup before.terminals
              /\ grammar.start \in grammar.non_terminals
              /\ Get(grammar.rules, grammar.start) = << <<before.start>>, <<>> >>
\* the old start was vanishing through another vanishing non-terminal
C6_Witness ==
    /\ LastOp("delete_vanishings")
    /\ Nullable(before, before.start)
    /\ ~HasEmptyAlternative(before, before.start)
    /\ grammar.start # before.start

\* C7: after delete_chain_rules no alternative is a single non-terminal, the
\* alternatives copied from unit-reachable non-terminals included
C7_NoChainRules ==
    LastOp("delete_chain_rules") =>
        \A X \in DOMAIN grammar.rules : \A r \in Range(grammar.rules[X]) :
            ~(Len(r) = 1 /\ r[1] \in grammar.non_terminals)
\* a chain of two unit rules was replaced by copied alternatives
C7_Witness ==
    /\ LastOp("delete_chain_rules")
    /\ \E X, Y \in before.non_terminals :
          /\ X # Y
          /\ <<Y>> \in Range(Get(before.rules, X))
          /\ <<X>> \in Range(Get(before.rules, Y))
          /\ \E r \in Range(Get(before.rules, Y)) :
                /\ Len(r) = MaxRuleLen
                /\ r \in Range(Get(grammar.rules, X))
                /\ r \notin Range(Get(before.rules, X))

\* the alternatives of a group that begin with c (the empty ones for c = ""),
\* in their order
BeginningWith(group, c) ==
    LET Begins(r) == IF r = <<>> THEN c = "" ELSE r[1] = c
    IN  SelectSeq(group, Begins)

\* C8: after left_factorize no two alternatives of any non-terminal, old or
\* fresh, begin with the same non-terminal; the alternatives beginning with a
\* terminal and the empty alternatives are left as they were
C8_Factored ==
    LastOp("left_factorize") =>
        /\ \A X \in DOMAIN grammar.rules \cup grammar.non_terminals :
              \A i, j \in DOMAIN Get(grammar.rules, X) :
                 LET ri == grammar.rules[X][i]
                     rj == grammar.rules[X][j]
                 IN  (i # j /\ ri # <<>> /\ rj # <<>> /\ ri[1] = rj[1]) =>
                        ri[1] \notin grammar.non_terminals
        /\ \A X \in before.non_terminals : \A c \in before.terminals \cup {""} :
              BeginningWith(Get(grammar.rules, X), c) =
                 BeginningWith(Get(before.rules, X), c)
\* two alternatives with a common non-terminal were factored next to an
\* alternative that begins with a terminal
C8_Witness ==
    /\ LastOp("left_factorize")
    /\ \E X \in before.non_terminals :
          /\ \E i, j \in DOMAIN Get(before.rules, X) :
                /\ i # j
                /\ before.rules[X][i] # <<>>
                /\ before.rules[X][i][1] \in before.non_terminals
                /\ before.rules[X][j] # <<>>
                /\ before.rules[X][j][1] = before.rules[X][i][1]
          /\ grammar.rules[X] # before.rules[X]
    /\ grammar.non_terminals # before.non_terminals

\* C9: constructing Parser(G) and calling is_in_language never changes the
\* caller's grammar: terminals, non-terminals, start, rules and the counter
\* of fresh symbols stay as they were before the construction
C9_CallerGrammarKept == grammar = before
\* the parser normalised its copy, answered a word, and its copy differs
C9_Witness ==
    /\ parser.ref # "none"
    /\ query.ret \in {"True", "False"}
    /\ parser.val.rules # grammar.rules
    /\ parser.val.non_terminals # grammar.non_terminals

WellFormed(G) ==
    /\ DOMAIN G.rules \subseteq G.non_terminals
    /\ \A X \in DOMAIN G.rules : \A r \in Range(G.rules[X]) :
          Range(r) \subseteq G.terminals \cup G.non_terminals
    /\ G.terminals \cap G.non_terminals = {}

\* C10: a grammar whose keys are non-terminals, whose right-hand sides are
\* over T \cup N and whose T and N are disjoint stays so under every sequence
\* of rewrites that complete
C10_WellFormedKept ==
    (\A i \in DOMAIN hist : hist[i].exc = "None") => WellFormed(grammar)
\* two rewrites completed, the second one allocated a fresh non-terminal
C10_Witness ==
    /\ Len(hist) = MaxOps
    /\ \A i \in DOMAIN hist : hist[i].exc = "None"
    /\ hist[1].op # hist[2].op
    /\ grammar.non_terminals \ NonTerminals # {}
    /\ before.non_terminals \subseteq NonTerminals
    /\ before.non_terminals # NonTerminals

\* the last rewrite called, whether it completed or raised
LastCalled(ops) == hist # <<>> /\ hist[Len(hist)].op \in ops

\* C11: delete_dead, and with it delete_extra_non_terminals and
\* eliminate_left_recursion, completes without raising on every well-formed
\* grammar, a grammar with a non-terminal that has no entry in R included
C11_DeleteDeadTotal ==
    ( /\ LastCalled({"delete_dead", "delete_extra_non_terminals",
                     "eliminate_left_recursion"})
      /\ WellFormed(before) ) => hist[Len(hist)].exc = "None"

\* C12: a rewrite that stops with an error leaves T, N, S and R exactly as
\* they were before it was called
C12_NoPartialUpdate ==
    (hist # <<>> /\ hist[Len(hist)].exc # "None") =>
        /\ grammar.terminals = before.terminals
        /\ grammar.non_terminals = before.non_terminals
        /\ grammar.start = before.start
        /\ grammar.rules = before.rules

\* the graph of the left-recursion test by its definition: an edge A -> B
\* when an alternative of A is a prefix of non-terminals that derive the
\* empty word, then the non-terminal B
LeftEdges(G) ==
    LET nullable == {t[1] : t \in DerivesFrom(G, <<>>, {})}
    IN  {e \in G.non_terminals \X G.non_terminals :
            \E r \in Range(Get(G.rules, e[1])) : \E j \in DOMAIN r :
                /\ r[j] = e[2]
                /\ \A m \in 1..(j - 1) : r[m] \in nullable}
RECURSIVE TransitiveClosure(_)
TransitiveClosure(E) ==
    LET more == UNION {{<<e[1], f[2]>> : f \in {g \in E : g[1] = e[2]}} : e \in E}
    IN  IF more \subseteq E THEN E ELSE TransitiveClosure(E \cup more)
LeftRecursive(G) == \E X \in G.non_terminals : <<X, X>> \in TransitiveClosure(LeftEdges(G))

\* C13: has_left_recursion() returns true exactly when the graph with an
\* edge A -> B for every alternative of A made of vanishing non-terminals
\* followed by B has a cycle, self-loops included; it is true of A -> A,
\* false of A -> BC, B -> C, C -> eps and true of A -> BC, B -> eps, C -> AB
C13_LeftRecursionIffCycle ==
    answer # "none" =>
        /\ answer = Bool(LeftRecursive(grammar))
        /\ grammar = SelfLoop => answer = "True"
        /\ grammar = NoRecursion => answer = "False"
        /\ grammar = NullableRecursion => answer = "True"
\* a cycle through two non-terminals that needs a vanishing prefix was found
C13_Witness ==
    /\ answer = "True"
    /\ \A X \in grammar.non_terminals : <<X, X>> \notin LeftEdges(grammar)
    /\ \E X \in grammar.non_terminals : \E r \in Range(Get(grammar.rules, X)) :
          /\ Len(r) = MaxRuleLen
          /\ Nullable(grammar, r[1])
          /\ r[1] # r[2]
          /\ <<r[2], X>> \in LeftEdges(grammar)
          /\ <<r[1], X>> \notin TransitiveClosure(LeftEdges(grammar))

\* no two alternatives of a non-terminal begin with the same non-terminal
LeftFactored(G) ==
    \A X \in DOMAIN G.rules : \A i, j \in DOMAIN G.rules[X] :
        LET ri == G.rules[X][i]
            rj == G.rules[X][j]
        IN  (i # j /\ ri # <<>> /\ rj # <<>> /\ ri[1] = rj[1]) =>
               ri[1] \notin G.non_terminals

\* C14: when the grammar the Parser constructor normalised is free of left
\* recursion and left-factored, is_in_language(w) terminates for every word
\* w: the call returns a boolean and does not recurse without end
C14_ParserTerminates ==
    (parser.ref # "none" /\ query.ret # "none") =>
        \/ query.ret \in {"True", "False"}
        \/ LeftRecursive(ParserGrammar)
        \/ ~LeftFactored(ParserGrammar)
\* a left-recursive grammar was normalised to one without left recursion and
\* the parser rejected a longest word
C14_Witness ==
    /\ parser.ref # "none"
    /\ LeftRecursive(before)
    /\ ~LeftRecursive(ParserGrammar)
    /\ LeftFactored(ParserGrammar)
    /\ query.ret = "False"
    /\ Len(query.word) = MaxWordLen
    /\ \E X \in ParserGrammar.non_terminals : HasEmptyAlternative(ParserGrammar, X)

\* rex2lts, lines 28-29 and 38-39: the automata built for the two children
\* of a Union or a Concatenation compiled at first
lts_fir(e, first) ==
    IF e.type = "Union" THEN rex2lts(e.first, first + 1) ELSE rex2lts(e.first, 0)
lts_sec(e, first) ==
    LET used == Cardinality(lts_fir(e, first).lts.states)
    IN  IF e.type = "Union" THEN rex2lts(e.second, first + 1 + used)
        ELSE rex2lts(e.second, first + used)

\* the states an LTS mentions: its start, its end, the ends of its transitions
Mentioned(L) ==
    {L.start, L.end} \cup {t.from_ : t \in L.transitions}
                     \cup {t.to : t \in L.transitions}

\* C15: every state rex2lts(e, f) mentions lies in [f, f + |States|), and
\* the automata built for the two children of a Concatenation or a Union
\* have no state index in common
C15_StatesInRange ==
    lts.exc = "None" =>
        /\ Mentioned(lts.lts) \subseteq
              first_state..(first_state + Cardinality(lts.lts.states) - 1)
        /\ rexp.type \in {"Concatenation", "Union"} =>
              Mentioned(lts_fir(rexp, first_state).lts) \cap
                 Mentioned(lts_sec(rexp, first_state).lts) = {}

\* C16: rex2lts(Star(x), f) returns an LTS with start f and end Lx.end + 1,
\* Lx being rex2lts(x, f + 1), whose transitions are those of Lx and the four
\* empty transitions f -> Lx.start, Lx.end -> end, Lx.end -> Lx.start and
\* Lx.start -> Lx.end; the LTS of Star(Symbol a) accepts exactly the chains
\* of a's, the empty chain included
C16_StarConstruction ==
    (rexp.type = "KleeneStar" /\ lts.exc # "not built") =>
        LET Lx == rex2lts(rexp.value, first_state + 1).lts
            end == Lx.end + 1
        IN  /\ lts.exc = "None"
            /\ lts.lts.start = first_state
            /\ lts.lts.end = end
            /\ lts.lts.transitions = Lx.transitions \cup
                  {Transition(first_state, "", Lx.start),
                   Transition(Lx.end, "", end),
                   Transition(Lx.end, "", Lx.start),
                   Transition(Lx.start, "", Lx.end)}
            /\ (rexp = KleeneStar(Symbol("a")) /\ lts_ans # "none") =>
                  lts_ans = Bool(Range(chain) \subseteq {"a"})

====
